---- MODULE Spec2Model ----
(***************************************************************************)
(* Model of src/main.py: main's startup, the materialization of the item   *)
(* descriptors, the user's review window, and generate_images driving the  *)
(* txt2img endpoint under the pause flag set by the keyboard listener.     *)
(*                                                                         *)
(* A descriptor (prompt.json) is abstracted to its 'Number of Iterations'  *)
(* field; the interactive resolution of the generation settings            *)
(* (main.py 266-353) changes nothing the batch loop branches on and is     *)
(* left out.                                                               *)
(***************************************************************************)
EXTENDS Integers, Sequences, FiniteSets, TLC

\* Largest 'Number of Iterations' a hand-edited descriptor holds.
MaxIter == 2

\* generate_json_files: data_without_name['Number of Iterations'] = 1
DefaultIterations == 1

\* Records of characters.txt and scenes.txt, by Name.
CharNames == {"Ann", "Bob"}
SceneNames == {"Sea"}
Keys == ({"character"} \X CharNames) \cup ({"scene"} \X SceneNames)

KeysOf(prompt_type) == {k \in Keys : k[1] = prompt_type}

\* What <item_dir>/prompt.json can be when it is opened.
NoDir == [kind |-> "nodir", iters |-> 0]
Absent == [kind |-> "absent", iters |-> 0]
Unparsable == [kind |-> "unparsable", iters |-> 0]
Desc(n) == [kind |-> "ok", iters |-> n]
Descriptors == {Desc(n) : n \in 1..MaxIter}

\* Answers of GET /sdapi/v1/sd-models: a status code or a connection error.
ProbeAnswers == {"200", "204", "404", "500", "conn_error"}

\* Outcomes of POST /sdapi/v1/txt2img as the try block (225-242) tells them
\* apart: a 2xx body with one decodable image, a connection error, a non-2xx
\* status, a 2xx body whose image is not valid base64, a 2xx body without a
\* usable 'images' list.
Responses == {"ok", "conn_error", "http_error", "bad_base64", "no_images"}

\* <item_dir>/Iteration_<n>/<item>_<n>_<k>.png, as <<item, n, k>>
ImageFiles == Keys \X (1..MaxIter) \X {1}

\* Strings the prompt is built from, as sequences of characters.  The
\* records of characters.txt have a 'Positive prompt' field, the record of
\* scenes.txt has none.
NoLora == <<>>
LoraFile == <<"s", ".", "v", "2", ".", "p", "t">>
LoraWeight == <<"1", ".", "0">>
PositivePromptField(k) == IF k[1] = "character" THEN <<"a", " ", k[2]>> ELSE <<>>

\* Keys the listener can deliver to on_press.
KeysPressed == {"space", "other"}

VARIABLES
    pc,               \* position of main / generate_images
    settingsPresent,  \* settings/sd_settings.json exists
    probeAnswer,      \* what the service answers to the liveness probe
    lora,             \* settings['lora']: a file name, or the empty string
    content,          \* text of the prompt file read by load_prompts
    prompts,          \* create_prompts' result: the parsed records
    json_files,       \* generate_json_files' writes: <<item directory, prompt.json>>
    desc,             \* disk: prompt.json of every item directory
    written,          \* prompt.json files written by this run
    paused,           \* global paused
    presses,          \* space presses delivered to on_press so far, modulo 4
    keyboard_listener,\* TRUE while the listener runs
    blocked,          \* paused was true at the last pause check and has not been false since
    prompt_type,      \* argument of the running generate_images
    items,            \* os.listdir(base_dir)
    idx,              \* position of the for loop over items
    num_iterations,   \* local of generate_images
    iteration,        \* loop variable of the iteration loop
    positive_prompt,  \* local of generate_images: the prompt of the payload
    madeDirs,         \* Iteration_<n> directories made by this run
    posts,            \* txt2img requests sent, in order
    inflight,         \* requests sent and not yet returned
    resp,             \* outcome of the request that just returned
    images,           \* image files written by this run
    files,            \* disk: the image files, left by an earlier run or written by this one
    errors,           \* iterations reported as failed (print + logging.error)
    log,              \* generation_log.txt: the entries of this run, in order
    doneItems         \* items whose iteration loop ran to its end

vars == <<pc, settingsPresent, probeAnswer, lora, content, prompts, json_files, desc, written, paused, presses,
          presses, keyboard_listener, blocked, prompt_type, items, idx,
          num_iterations, iteration, positive_prompt, madeDirs, posts, inflight, resp, images, files, errors,
          log, doneItems>>

envVars == <<settingsPresent, probeAnswer, lora, content, prompts, json_files>>
loopVars == <<prompt_type, items, idx, num_iterations, iteration, positive_prompt>>
outVars == <<madeDirs, posts, inflight, resp, images, files, errors, log,
            doneItems>>

----
\* Helpers

RECURSIVE Perms(_)
Perms(S) ==
    IF S = {} THEN {<<>>}
    ELSE UNION {{<<x>> \o p : p \in Perms(S \ {x})} : x \in S}

cur == items[idx]

\* check_stable_diffusion_running: True only for status 200
check_stable_diffusion_running_answered(answer) == answer # "conn_error"
check_stable_diffusion_running_2xx(answer) == answer \in {"200", "204"}
check_stable_diffusion_running(answer) == answer = "200"

\* except requests.exceptions.RequestException
IsRequestException_narrow(r) == r = "conn_error"
IsRequestException(r) == r \in {"conn_error", "http_error"}

\* the 'continue' of the except clause: the iteration loop goes on with the
\* next index
AfterExcept_break(i, n) == n + 1
AfterExcept(i, n) == i + 1

\* while paused: the condition of both pause waits
PauseWait_never(p) == FALSE
PauseWait(p) == p

\* img_path = os.path.join(iteration_dir, f'{item_name}_{iteration}_{idx + 1}.png')
img_path_first_dir(item, n, position) == <<item, 1, position + 1>>
img_path(item, n, position) == <<item, n, position + 1>>

\* paused = not paused
Toggled_set(p) == TRUE
Toggled(p) == ~p

\* os.path.splitext(name)[0]: the name up to its last dot, leading dots aside
RECURSIVE LeadingDots(_)
LeadingDots(name) ==
    IF name # <<>> /\ Head(name) = "." THEN 1 + LeadingDots(Tail(name)) ELSE 0

LastDot(name) ==
    LET dots == {i \in (LeadingDots(name) + 1)..Len(name) : name[i] = "."}
    IN  IF dots = {} THEN 0 ELSE CHOOSE i \in dots : \A j \in dots : j <= i

splitext_root(name) ==
    IF LastDot(name) = 0 THEN name ELSE SubSeq(name, 1, LastDot(name) - 1)

\* positive_prompt = data.get('Positive prompt', ''), read again in every
\* iteration (prev: the value the local had before)
prompt_start_carried(field, prev, n) == IF n = 1 THEN field ELSE prev
prompt_start(field, prev, n) == field

\* if settings['lora']: positive_prompt += f" <lora:{lora_name}:{settings['lora_weight']}>"
with_lora(prompt, lora_file) ==
    IF lora_file # <<>>
    THEN prompt \o <<" ", "<", "lora", ":">> \o splitext_root(lora_file)
                \o <<":">> \o LoraWeight \o <<">">>
    ELSE prompt

\* num_iterations = int(data.get('Number of Iterations', 1))
NumIterations_default(d) == DefaultIterations
NumIterations(d) == d.iters

----
\* The prompt file parser and the descriptor written for a record.  Strings
\* are sequences of characters.

\* Longest prompt file, in lines.
MaxLines == 3

\* Lines a prompt file is made of.
FileLines == {
    <<"N", "a", "m", "e", ":", " ", "J", " ", "G">>,
    <<"D", ":", " ", "A">>,
    <<"b">>,
    <<"-", "-", "-">>,
    <<>>,
    <<":", "z">>,
    <<"S", "e", "e", "d", ":", " ", "5">>,
    <<"-", "-", "-", "-">> }

RECURSIVE JoinLines(_)
JoinLines(ls) ==
    IF Len(ls) = 0 THEN <<>>
    ELSE IF Len(ls) = 1 THEN ls[1]
    ELSE ls[1] \o <<"\n">> \o JoinLines(Tail(ls))

Texts == {JoinLines(ls) : ls \in UNION {[1..n -> FileLines] : n \in 1..MaxLines}}

\* str.strip(): whitespace off both ends
Whitespace == {" ", "\n", "\t"}

RECURSIVE lstrip(_)
lstrip(str) == IF str # <<>> /\ Head(str) \in Whitespace THEN lstrip(Tail(str)) ELSE str

RECURSIVE rstrip(_)
rstrip(str) ==
    IF str # <<>> /\ str[Len(str)] \in Whitespace
    THEN rstrip(SubSeq(str, 1, Len(str) - 1)) ELSE str

strip(str) == rstrip(lstrip(str))

\* str.find(sep) + 1: the first position where sep occurs, 0 if none
Find(str, sep) ==
    LET hits == {i \in 1..(Len(str) - Len(sep) + 1) :
                    SubSeq(str, i, i + Len(sep) - 1) = sep}
    IN  IF hits = {} THEN 0 ELSE CHOOSE i \in hits : \A j \in hits : i <= j

\* str.split(sep): left to right, occurrences do not overlap
RECURSIVE split(_, _)
split(str, sep) ==
    LET i == Find(str, sep) IN
    IF i = 0 THEN <<str>>
    ELSE <<SubSeq(str, 1, i - 1)>> \o split(SubSeq(str, i + Len(sep), Len(str)), sep)

\* str.split(sep, 1)
split_once(str, sep) ==
    LET i == Find(str, sep) IN
    IF i = 0 THEN <<str>>
    ELSE <<SubSeq(str, 1, i - 1), SubSeq(str, i + Len(sep), Len(str))>>

\* load_prompts: [block.strip() for block in content.split('---') if block.strip()]
load_prompts_unfiltered(text) ==
    LET blocks == split(text, <<"-", "-", "-">>)
    IN  [i \in 1..Len(blocks) |-> strip(blocks[i])]

load_prompts(text) ==
    LET blocks == split(text, <<"-", "-", "-">>)
    IN  SelectSeq([i \in 1..Len(blocks) |-> strip(blocks[i])], LAMBDA b : b # <<>>)

EmptyDict == [k \in {} |-> <<>>]

\* the loop of parse_prompt_block; current_key is <<>> for None and for '',
\* which 'if current_key:' does not tell apart
RECURSIVE parse_lines(_, _, _)
parse_lines(lines, data, current_key) ==
    IF lines = <<>> THEN data
    ELSE LET line == Head(lines) IN
         IF Find(line, <<":">>) # 0
         THEN LET kv == split_once(line, <<":">>)
                  key == strip(kv[1])
              IN  parse_lines(Tail(lines), (key :> strip(kv[2])) @@ data, key)
         ELSE IF current_key # <<>>
         THEN parse_lines(Tail(lines),
                          (current_key :> (data[current_key] \o <<" ">> \o strip(line)))
                              @@ data,
                          current_key)
         ELSE parse_lines(Tail(lines), data, current_key)

parse_prompt_block(block) ==
    parse_lines(split(strip(block), <<"\n">>), EmptyDict, <<>>)

\* create_prompts: one record per block of load_prompts, in order
create_prompts(text) ==
    LET blocks == load_prompts(text)
    IN  [i \in 1..Len(blocks) |-> parse_prompt_block(blocks[i])]

NameKey == <<"N", "a", "m", "e">>
ImagesKey == <<"N", "u", "m", "b", "e", "r", " ", "o", "f", " ", "I", "m", "a", "g", "e", "s">>
IterationsKey == <<"N", "u", "m", "b", "e", "r", " ", "o", "f", " ", "I", "t", "e", "r", "a", "t", "i", "o", "n", "s">>
SeedKey == <<"S", "e", "e", "d">>
Unnamed == <<"U", "n", "n", "a", "m", "e", "d">>

\* settings['seed'], by default -1
SettingsSeed == -1

\* generate_json_files: 'Number of Images' = 1
DefaultImages == 1

\* str.replace(' ', '_')
replace_spaces_kept(str) == str
replace_spaces(str) == [i \in 1..Len(str) |-> IF str[i] = " " THEN "_" ELSE str[i]]

\* item_name = data.get('Name', 'Unnamed').replace(' ', '_')
item_name(data) ==
    replace_spaces(IF NameKey \in DOMAIN data THEN data[NameKey] ELSE Unnamed)

\* data_without_name, with the three placeholders set
data_without_name(data, default_seed) ==
    (ImagesKey :> DefaultImages) @@ (IterationsKey :> DefaultIterations)
        @@ (SeedKey :> default_seed)
        @@ [k \in DOMAIN data \ {NameKey} |-> data[k]]

----
Init ==
    /\ pc = "load_settings"
    /\ settingsPresent \in BOOLEAN
    /\ probeAnswer \in ProbeAnswers
    /\ lora \in {NoLora, LoraFile}
    /\ content = <<>>
    /\ prompts = <<>>
    /\ json_files = <<>>
    /\ desc \in [Keys -> {NoDir, Desc(MaxIter)}]
    /\ written = {}
    /\ paused = FALSE
    /\ presses = 0
    /\ keyboard_listener = FALSE
    /\ blocked = FALSE
    /\ prompt_type = "none"
    /\ items = <<>>
    /\ idx = 0
    /\ num_iterations = 0
    /\ iteration = 0
    /\ positive_prompt = <<>>
    /\ madeDirs = {}
    /\ posts = <<>>
    /\ inflight = {}
    /\ resp = "none"
    /\ images = {}
    /\ files \in {[f \in ImageFiles |-> "none"]} \cup
                 IF \A k \in Keys : desc[k] # NoDir
                 THEN {[f \in ImageFiles |-> "old"]} ELSE {}
    /\ errors = {}
    /\ log = <<>>
    /\ doneItems = {}

----
\* main, startup

load_sd_settings ==
    /\ pc = "load_settings"
    /\ pc' = IF settingsPresent THEN "probe" ELSE "exit1"
    /\ UNCHANGED <<envVars, desc, written, paused, presses, keyboard_listener, blocked,
                   loopVars, outVars>>

Probe ==
    /\ pc = "probe"
    /\ pc' = IF check_stable_diffusion_running(probeAnswer)
             THEN "materialize_character" ELSE "exit1"
    /\ UNCHANGED <<envVars, desc, written, paused, presses, keyboard_listener, blocked,
                   loopVars, outVars>>

\* generate_json_files(prompts, prompt_type, story_name, default_seed):
\* open(prompt_path, 'w') for every record, whatever is there
generate_json_files_create_once(ptype) ==
    /\ pc = "materialize_" \o ptype
    /\ desc' = [k \in Keys |-> IF k \in KeysOf(ptype) /\ desc[k] = NoDir
                                THEN Desc(DefaultIterations) ELSE desc[k]]
    /\ written' = written \cup {k \in KeysOf(ptype) : desc[k] = NoDir}
    /\ pc' = IF ptype = "character" THEN "materialize_scene" ELSE "wait_enter"
    /\ UNCHANGED <<envVars, paused, presses, keyboard_listener, blocked, loopVars,
                   outVars>>

generate_json_files(ptype) ==
    /\ pc = "materialize_" \o ptype
    /\ desc' = [k \in Keys |-> IF k \in KeysOf(ptype)
                                THEN Desc(DefaultIterations) ELSE desc[k]]
    /\ written' = written \cup KeysOf(ptype)
    /\ pc' = IF ptype = "character" THEN "materialize_scene" ELSE "wait_enter"
    /\ UNCHANGED <<envVars, paused, presses, keyboard_listener, blocked, loopVars,
                   outVars>>

\* "You can review and edit them before proceeding.": the user rewrites,
\* breaks or removes one prompt.json while main waits for Enter.
EditDescriptor ==
    /\ pc = "wait_enter"
    /\ \E k \in Keys, d \in Descriptors \cup {Absent, Unparsable} :
          /\ desc[k] # NoDir
          /\ desc[k] # d
          /\ desc' = [desc EXCEPT ![k] = d]
    /\ UNCHANGED <<pc, envVars, written, paused, presses, keyboard_listener, blocked,
                   loopVars, outVars>>

PressEnter ==
    /\ pc = "wait_enter"
    /\ pc' = "start_listener"
    /\ UNCHANGED <<envVars, desc, written, paused, presses, keyboard_listener, blocked,
                   loopVars, outVars>>

start_keyboard_listener ==
    /\ pc = "start_listener"
    /\ UNCHANGED positive_prompt
    /\ keyboard_listener' = TRUE
    /\ prompt_type' = "character"
    /\ pc' = "listdir"
    /\ UNCHANGED <<envVars, desc, written, paused, presses, blocked, items, idx,
                   num_iterations, iteration, outVars>>

stop_keyboard_listener ==
    /\ pc = "stop_listener"
    /\ keyboard_listener' = FALSE
    /\ pc' = "done"
    /\ UNCHANGED <<envVars, desc, written, paused, presses, blocked, loopVars, outVars>>

----
\* The listener thread

on_press ==
    /\ keyboard_listener
    /\ pc \notin {"done", "crashed", "exit1"}
    /\ \E key \in KeysPressed :
          /\ paused' = IF key = "space" THEN Toggled(paused) ELSE paused
          /\ presses' = IF key = "space" THEN (presses + 1) % 4 ELSE presses
          /\ blocked' = IF key = "space" /\ paused THEN FALSE ELSE blocked
    /\ UNCHANGED <<pc, envVars, desc, written, keyboard_listener, loopVars, outVars>>

----
\* generate_images(settings, prompt_type, story_name)

\* items = os.listdir(base_dir): the item directories, in no defined order
ListDir ==
    /\ pc = "listdir"
    /\ UNCHANGED positive_prompt
    /\ items' \in Perms({k \in KeysOf(prompt_type) : desc[k] # NoDir})
    /\ idx' = 1
    /\ pc' = "item_head"
    /\ UNCHANGED <<envVars, desc, written, paused, presses, keyboard_listener, blocked,
                   prompt_type, num_iterations, iteration, outVars>>

\* for item_name in items: the next item, or the return to main
ItemHead ==
    /\ pc = "item_head"
    /\ UNCHANGED positive_prompt
    /\ IF idx <= Len(items)
       THEN /\ pc' = "load"
            /\ UNCHANGED prompt_type
       ELSE IF prompt_type = "character"
       THEN /\ prompt_type' = "scene"
            /\ pc' = "listdir"
       ELSE /\ pc' = "stop_listener"
            /\ UNCHANGED prompt_type
    /\ UNCHANGED <<envVars, desc, written, paused, presses, keyboard_listener, blocked,
                   items, idx, num_iterations, iteration, outVars>>

\* open(prompt_path) and json.load(f): no handler around either
LoadDescriptor ==
    /\ pc = "load"
    /\ UNCHANGED positive_prompt
    /\ IF desc[cur].kind = "ok"
       THEN /\ num_iterations' = NumIterations(desc[cur])
            /\ iteration' = 1
            /\ pc' = "iter_head"
       ELSE /\ pc' = "crashed"
            /\ UNCHANGED <<num_iterations, iteration>>
    /\ UNCHANGED <<envVars, desc, written, paused, presses, keyboard_listener, blocked,
                   prompt_type, items, idx, outVars>>

\* for iteration in range(1, num_iterations + 1): os.makedirs(iteration_dir)
IterHead ==
    /\ pc = "iter_head"
    /\ IF iteration <= num_iterations
       THEN /\ madeDirs' = madeDirs \cup {<<cur, iteration>>}
            /\ positive_prompt' =
                  with_lora(prompt_start(PositivePromptField(cur),
                                         positive_prompt, iteration), lora)
            /\ pc' = "pause_pre"
            /\ UNCHANGED <<idx, doneItems>>
       ELSE /\ doneItems' = doneItems \cup {cur}
            /\ idx' = idx + 1
            /\ pc' = "item_head"
            /\ UNCHANGED <<madeDirs, positive_prompt>>
    /\ UNCHANGED <<envVars, desc, written, paused, presses, keyboard_listener, blocked,
                   prompt_type, items, num_iterations, iteration, posts,
                   inflight, resp, images, files, errors, log>>

\* while paused: (before the request)
PausePre ==
    /\ pc = "pause_pre"
    /\ IF PauseWait(paused)
       THEN pc' = "sleep_pre"
       ELSE pc' = "send"
    /\ blocked' = paused
    /\ UNCHANGED <<envVars, desc, written, paused, presses, keyboard_listener,
                   loopVars, outVars>>

\* time.sleep(0.5)
SleepPre ==
    /\ pc = "sleep_pre"
    /\ pc' = "pause_pre"
    /\ UNCHANGED <<envVars, desc, written, paused, presses, keyboard_listener, blocked,
                   loopVars, outVars>>

\* requests.post(api_url, headers=headers, json=payload): the request leaves
SendAsync ==
    /\ pc = "send"
    /\ UNCHANGED positive_prompt
    /\ log' = log \o <<<<"generating", cur, iteration>>, <<"payload", cur, iteration>>>>
    /\ posts' = Append(posts, <<cur, iteration>>)
    /\ inflight' = inflight \cup {<<cur, iteration>>}
    /\ iteration' = iteration + 1
    /\ pc' = "iter_head"
    /\ UNCHANGED <<envVars, desc, written, paused, presses, keyboard_listener, blocked,
                   prompt_type, items, idx, num_iterations, madeDirs, resp,
                   images, files, errors, doneItems>>

Send ==
    /\ pc = "send"
    /\ log' = log \o <<<<"generating", cur, iteration>>, <<"payload", cur, iteration>>>>
    /\ posts' = Append(posts, <<cur, iteration>>)
    /\ inflight' = inflight \cup {<<cur, iteration>>}
    /\ pc' = "await"
    /\ UNCHANGED <<envVars, desc, written, paused, presses, keyboard_listener, blocked,
                   loopVars, madeDirs, resp, images, files, errors, doneItems>>

\* requests.post returns or raises: the service's answer
Respond ==
    /\ pc = "await"
    /\ inflight # {}
    /\ resp' \in Responses
    /\ inflight' = {}
    /\ pc' = "handle"
    /\ UNCHANGED <<envVars, desc, written, paused, presses, keyboard_listener, blocked,
                   loopVars, madeDirs, posts, images, files, errors, log,
                   doneItems>>

\* raise_for_status, response.json(), logging.info(response.text), the image
\* loop and the except clause
HandleResponse ==
    /\ pc = "handle"
    /\ UNCHANGED positive_prompt
    /\ log' = IF IsRequestException(resp)
              THEN Append(log, <<"error", cur, iteration>>)
              ELSE Append(log, <<"response", cur, iteration>>)
    /\ IF resp = "ok"
       THEN /\ images' = images \cup {img_path(cur, iteration, 0)}
            /\ files' = [files EXCEPT ![img_path(cur, iteration, 0)] = "new"]
            /\ pc' = "pause_post"
            /\ UNCHANGED <<iteration, errors>>
       ELSE IF IsRequestException(resp)
       THEN /\ errors' = errors \cup {<<cur, iteration>>}
            /\ iteration' = AfterExcept(iteration, num_iterations)
            /\ pc' = "iter_head"
            /\ UNCHANGED <<images, files>>
       ELSE /\ pc' = "crashed"
            /\ UNCHANGED <<iteration, images, files, errors>>
    /\ resp' = IF pc' = "crashed" THEN resp ELSE "none"
    /\ UNCHANGED <<envVars, desc, written, paused, presses, keyboard_listener, blocked,
                   prompt_type, items, idx, num_iterations, madeDirs, posts,
                   inflight, doneItems>>

\* while paused: (after the request)
PausePost_spin ==
    /\ pc = "pause_post"
    /\ UNCHANGED positive_prompt
    /\ pc' = "sleep_post"
    /\ UNCHANGED iteration
    /\ blocked' = paused
    /\ UNCHANGED <<envVars, desc, written, paused, presses, keyboard_listener,
                   prompt_type, items, idx, num_iterations, outVars>>

PausePost ==
    /\ pc = "pause_post"
    /\ UNCHANGED positive_prompt
    /\ IF PauseWait(paused)
       THEN /\ pc' = "sleep_post"
            /\ UNCHANGED iteration
       ELSE /\ pc' = "iter_head"
            /\ iteration' = iteration + 1
    /\ blocked' = paused
    /\ UNCHANGED <<envVars, desc, written, paused, presses, keyboard_listener,
                   prompt_type, items, idx, num_iterations, outVars>>

SleepPost ==
    /\ pc = "sleep_post"
    /\ pc' = "pause_post"
    /\ UNCHANGED <<envVars, desc, written, paused, presses, keyboard_listener, blocked,
                   loopVars, outVars>>

----
Next ==
    \/ load_sd_settings
    \/ Probe
    \/ generate_json_files("character")
    \/ generate_json_files("scene")
    \/ EditDescriptor
    \/ PressEnter
    \/ start_keyboard_listener
    \/ on_press
    \/ ListDir
    \/ ItemHead
    \/ LoadDescriptor
    \/ IterHead
    \/ PausePre
    \/ SleepPre
    \/ Send
    \/ Respond
    \/ HandleResponse
    \/ PausePost
    \/ SleepPost
    \/ stop_keyboard_listener

Spec == Init /\ [][Next]_vars

\* The steps main's own thread takes without waiting for anyone: the thread
\* runs whenever it can.  Enter and the space key are the user's, the answer
\* to a request is the service's.
MainThread ==
    \/ load_sd_settings
    \/ Probe
    \/ generate_json_files("character")
    \/ generate_json_files("scene")
    \/ start_keyboard_listener
    \/ ListDir
    \/ ItemHead
    \/ LoadDescriptor
    \/ IterHead
    \/ PausePre
    \/ SleepPre
    \/ Send
    \/ HandleResponse
    \/ PausePost
    \/ SleepPost
    \/ stop_keyboard_listener

\* A first run of a story: no LoRA file installed, no image written yet.
InitLive ==
    /\ Init
    /\ lora = NoLora
    /\ files = [f \in ImageFiles |-> "none"]

SpecLive == InitLive /\ [][Next]_vars /\ WF_vars(MainThread)

----
\* The prompt pipeline on its own: main.py 355-362 applied to every prompt
\* file of at most MaxLines lines.

InitParse ==
    /\ pc = "create_prompts"
    /\ content \in Texts
    /\ prompts = <<>>
    /\ json_files = <<>>
    /\ settingsPresent = TRUE
    /\ probeAnswer = "200"
    /\ lora = NoLora
    /\ desc = [k \in Keys |-> NoDir]
    /\ written = {}
    /\ paused = FALSE
    /\ presses = 0
    /\ keyboard_listener = FALSE
    /\ blocked = FALSE
    /\ prompt_type = "none"
    /\ items = <<>>
    /\ idx = 0
    /\ num_iterations = 0
    /\ iteration = 0
    /\ positive_prompt = <<>>
    /\ madeDirs = {}
    /\ posts = <<>>
    /\ inflight = {}
    /\ resp = "none"
    /\ images = {}
    /\ files = [f \in ImageFiles |-> "none"]
    /\ errors = {}
    /\ log = <<>>
    /\ doneItems = {}

runVars == <<settingsPresent, probeAnswer, lora, desc, written, paused, presses,
             keyboard_listener, blocked, loopVars, outVars>>

\* character_prompts = create_prompts('character')
CreatePrompts ==
    /\ pc = "create_prompts"
    /\ prompts' = create_prompts(content)
    /\ pc' = "generate_json_files"
    /\ UNCHANGED <<content, json_files, runVars>>

\* generate_json_files(character_prompts, 'character', story_name, settings['seed'])
GenerateJsonFiles ==
    /\ pc = "generate_json_files"
    /\ json_files' = [i \in 1..Len(prompts) |->
                        <<item_name(prompts[i]),
                          data_without_name(prompts[i], SettingsSeed)>>]
    /\ pc' = "materialized"
    /\ UNCHANGED <<content, prompts, runVars>>

NextParse == CreatePrompts \/ GenerateJsonFiles

SpecParse == InitParse /\ [][NextParse]_vars

----
TypeOK ==
    /\ pc \in {"load_settings", "probe", "materialize_character",
               "materialize_scene", "wait_enter", "start_listener", "listdir",
               "item_head", "load", "iter_head", "pause_pre", "sleep_pre",
               "send", "await", "handle", "pause_post", "sleep_post",
               "stop_listener", "done", "crashed", "exit1",
               "create_prompts", "generate_json_files", "materialized"}
    /\ paused \in BOOLEAN
    /\ keyboard_listener \in BOOLEAN
    /\ iteration \in 0..(MaxIter + 1)
    /\ resp \in Responses \cup {"none"}

----
\* Definitions used by the properties

LoopPcs == {"item_head", "load", "iter_head", "pause_pre", "sleep_pre", "send",
            "await", "handle", "pause_post", "sleep_post"}
BeforeSendPcs == {"iter_head", "pause_pre", "sleep_pre", "send"}
AfterSendPcs == {"await", "handle", "pause_post", "sleep_post"}
RequestFailures == {"conn_error", "http_error"}
MalformedPayloads == {"bad_base64", "no_images"}

PostsOf(k) == SelectSeq(posts, LAMBDA p : p[1] = k)
UpTo(k, m) == [i \in 1..m |-> <<k, i>>]
PostIndex(p) == CHOOSE i \in 1..Len(posts) : posts[i] = p
IsPosted(p) == \E i \in 1..Len(posts) : posts[i] = p
Handled(p) == p \in errors \/ <<p[1], p[2], 1>> \in images
DirsOf(k) == {i \in 1..(MaxIter + 1) : <<k, i>> \in madeDirs}

----
\* C1: a txt2img request that fails with a network error or a non-2xx status
\* never aborts the run: the loop stays in the same enumeration and goes on to
\* the next unit of work, and a run that reaches its normal end has issued the
\* requests of every item directory.
C1_FailedRequestDoesNotAbort ==
    /\ [][(pc = "handle" /\ resp \in RequestFailures)
            => /\ pc' \in {"handle", "iter_head"}
               /\ items' = items /\ idx' = idx /\ prompt_type' = prompt_type]_vars
    /\ [](pc = "done" =>
            \A k \in Keys : desc[k] # NoDir =>
                /\ k \in doneItems
                /\ \A i \in 1..desc[k].iters : IsPosted(<<k, i>>))

C1_Witness ==
    /\ pc = "done"
    /\ \E a \in Keys, b \in Keys :
          /\ a # b
          /\ <<a, 1>> \in errors
          /\ IsPosted(<<b, 1>>)
          /\ PostIndex(<<a, 1>>) < PostIndex(<<b, 1>>)

\* C2: the requests sent for an item are those of the iteration indices
\* 1, 2, ... in increasing order, one each, whatever the earlier iterations'
\* outcome: before the request of iteration i exactly 1..i-1 have been sent,
\* and an item whose loop has ended has had exactly 1..N sent.
C2_OnePostPerIteration ==
    \A k \in Keys :
        LET sent == PostsOf(k) IN
        /\ sent = UpTo(k, Len(sent))
        /\ k \in doneItems => Len(sent) = desc[k].iters
        /\ (pc \in BeforeSendPcs /\ k = cur) =>
              /\ Len(sent) = iteration - 1
              /\ iteration <= num_iterations + 1
        /\ (pc \in AfterSendPcs /\ k = cur) => Len(sent) = iteration

C2_Witness ==
    \E k \in Keys :
        /\ k \in doneItems
        /\ <<k, 1>> \in errors
        /\ IsPosted(<<k, 2>>)

\* C3: once a pause check has found the flag true, no txt2img request is sent
\* until the flag has been false again.
C3_PausedLoopSendsNothing == [][blocked => posts' = posts]_vars

C3_Witness ==
    /\ blocked
    /\ paused
    /\ pc = "sleep_pre"
    /\ posts # <<>>

\* C4: every request is sent straight from a passed pause check, and every
\* request that returned, with images or with a request error, is followed
\* at once by another pause check.
C4_GatedOnBothSides ==
    [][/\ pc' = "send" => pc \in {"pause_pre", "send"}
       /\ (pc = "handle" /\ resp \in {"ok"} \cup RequestFailures)
            => pc' \in {"handle", "pause_post"}]_vars

\* C5: an item whose prompt.json is absent or unparsable is skipped and the
\* loop goes on with the next item of the enumeration.
C5_BadDescriptorSkipsItemOnly ==
    [][(pc = "load" /\ desc[cur].kind # "ok")
         => \/ pc' = "load"
            \/ pc' = "item_head" /\ idx' = idx + 1]_vars

\* C6: a 2xx response with a malformed image payload is handled like a failed
\* request: the iteration is reported as failed and the loop goes on with the
\* next iteration.
C6_MalformedPayloadIsAFailedIteration ==
    [][(pc = "handle" /\ resp \in MalformedPayloads)
         => \/ pc' = "handle"
            \/ /\ pc' = "iter_head"
               /\ errors' = errors \cup {<<cur, iteration>>}
               /\ iteration' = iteration + 1]_vars

\* C7: the listener runs whenever an item is being processed, and it runs no
\* longer once the batch has ended, normally or with an uncaught error.
C7_ListenerBracketsTheBatch ==
    /\ pc \in LoopPcs \cup {"listdir"} => keyboard_listener
    /\ pc \in {"done", "crashed"} => ~keyboard_listener

\* C8: when sd_settings.json is absent or the probe gets a non-2xx status or
\* no connection, main gets no further than its exit with status 1: no
\* prompt.json written, no request sent, no listener started.
C8_StartupFailureDoesNoWork ==
    /\ ~settingsPresent => pc \in {"load_settings", "exit1"}
    /\ (~settingsPresent \/ probeAnswer \in {"404", "500", "conn_error"}) =>
          /\ pc \in {"load_settings", "probe", "exit1"}
          /\ written = {}
          /\ madeDirs = {}
          /\ posts = <<>>
          /\ ~keyboard_listener

C8_Witness ==
    /\ pc = "exit1"
    /\ settingsPresent
    /\ probeAnswer = "500"

\* C9: at most one request is outstanding, only while the loop waits for it,
\* and when the next request is about to be sent every earlier one has
\* returned and has been handled (image written or failure reported).
C9_OneOutstandingRequest ==
    /\ Cardinality(inflight) <= 1
    /\ inflight # {} => pc = "await"
    /\ pc = "send" => \A i \in 1..Len(posts) : Handled(posts[i])

C9_Witness ==
    /\ pc = "await"
    /\ Len(posts) >= 2
    /\ Cardinality(inflight) = 1

----
\* C11 (as stated): while the descriptors are materialized, an existing
\* prompt.json keeps the content it had.
C11_ExistingDescriptorKept ==
    [][(pc \in {"materialize_character", "materialize_scene"})
         => (\A k \in Keys : desc[k].kind = "ok" => desc'[k] = desc[k])]_vars

\* C11 (amended): every run writes the prompt.json of every record afresh,
\* with the default iteration count, over whatever was there; the count
\* generation uses is the one the file holds when it is reloaded.
C11_DescriptorRewrittenEachRun ==
    /\ [][\A t \in {"character", "scene"} :
            pc = "materialize_" \o t =>
               (\A k \in KeysOf(t) : /\ desc'[k] = Desc(DefaultIterations)
                                     /\ k \in written')]_vars
    /\ [](pc \in {"iter_head", "pause_pre", "send", "await", "handle", "pause_post"}
            => num_iterations = desc[cur].iters)

C11_Witness ==
    /\ pc = "wait_enter"
    /\ \E k \in Keys :
          /\ files[<<k, MaxIter, 1>>] = "old"
          /\ MaxIter # DefaultIterations
          /\ k \in written
          /\ desc[k] = Desc(DefaultIterations)

\* C12: a step changes an image file only while the response of item X,
\* iteration n is handled, only a file X_n_k.png of X/Iteration_n, and only
\* by writing it: every other file keeps its content and no file disappears.
C12_OnlyTheIterationsFilesWritten ==
    [][\A f \in ImageFiles :
          files'[f] # files[f] =>
             /\ pc = "handle"
             /\ f[1] = cur
             /\ f[2] = iteration
             /\ files'[f] = "new"]_vars

C12_Witness ==
    \E k \in Keys :
        /\ files[<<k, 1, 1>>] = "new"
        /\ <<k, 2>> \in errors
        /\ files[<<k, 2, 1>>] = "old"
        /\ k \in doneItems

----
LogHas(e) == \E i \in 1..Len(log) : log[i] = e

\* C13: every request sent has its payload in the log, every response
\* received, 2xx or not, has its body in the log once it has been handled,
\* and the log only grows at its end.
C13_RequestsAndResponsesLogged ==
    [][/\ posts' # posts => log'[Len(log')] = <<"payload", cur, iteration>>
       /\ (pc = "handle" /\ pc' # "handle" /\ resp # "conn_error")
            => \E i \in 1..Len(log') : log'[i] = <<"response", cur, iteration>>
       /\ Len(log') >= Len(log)
       /\ SubSeq(log', 1, Len(log)) = log]_vars

----
Is2xx(answer) == answer \in {"200", "204"}
ProbeDone == settingsPresent /\ pc \notin {"load_settings", "probe"}

\* C17 (as stated): once the probe has been made, main has gone on exactly
\* when the answer was a 2xx status.
C17_Any2xxIsRunning == ProbeDone => (pc # "exit1" <=> Is2xx(probeAnswer))

\* C17 (amended): once the probe has been made, main has gone on exactly when
\* the answer was status 200; any other status, 2xx or not, and a connection
\* error make it exit.
C17_Only200IsRunning == ProbeDone => (pc # "exit1" <=> probeAnswer = "200")

C17_Witness ==
    /\ pc = "exit1"
    /\ settingsPresent
    /\ probeAnswer = "204"

----
\* C18: the flag is false before any press and every space press flips it, so
\* it is false exactly after an even number of presses: two presses in a row
\* leave it as it was.
C18_FlagFollowsPressParity == paused <=> (presses % 2 = 1)

C18_Witness ==
    /\ presses = 2
    /\ ~paused
    /\ ~blocked
    /\ pc = "pause_pre"

\* lora_extensions = ('.ckpt', '.safetensors', '.pt')
LoraExtensions == {<<".", "c", "k", "p", "t">>, <<".", "p", "t">>,
                   <<".", "s", "a", "f", "e", "t", "e", "n", "s", "o", "r", "s">>}
Stems(name) == {SubSeq(name, 1, n) : n \in 0..Len(name)}
LoraTags(name) ==
    {<<" ", "<", "lora", ":">> \o stem \o <<":">> \o LoraWeight \o <<">">> :
        stem \in {r \in Stems(name) : \E ext \in LoraExtensions : r \o ext = name}}

\* C19: from the moment an iteration's prompt is built until its request has
\* been handled, the prompt is the item's 'Positive prompt' (empty if the
\* field is absent) followed by the one tag of the configured adapter, or by
\* nothing when no adapter is configured, in every iteration of the item.
C19_OneLoraTagPerRequest ==
    pc \in {"pause_pre", "sleep_pre", "send", "await", "handle",
            "pause_post", "sleep_post"} =>
        IF lora = NoLora
        THEN positive_prompt = PositivePromptField(cur)
        ELSE \E tag \in LoraTags(lora) :
                positive_prompt = PositivePromptField(cur) \o tag

C19_Witness ==
    /\ pc = "send"
    /\ iteration = 2
    /\ lora = LoraFile
    /\ <<cur, 1>> \in errors
    /\ positive_prompt = <<"a", " ", cur[2], " ", "<", "lora", ":", "s", ".",
                           "v", "2", ":", "1", ".", "0", ">">>

----
\* Properties of the prompt pipeline (under SpecParse)

Separator == <<"-", "-", "-">>
HasColon(line) == Find(line, <<":">>) # 0
Label(line) == strip(split_once(line, <<":">>)[1])
Rest(line) == strip(split_once(line, <<":">>)[2])

\* '---' occurs in the text only as a whole line
WellFormed(text) ==
    LET lines == split(text, <<"\n">>)
    IN  \A i \in 1..Len(lines) : Find(lines[i], Separator) # 0 => lines[i] = Separator

\* the runs of lines between separator lines
RECURSIVE LineBlocks(_, _)
LineBlocks(lines, block) ==
    IF lines = <<>> THEN <<block>>
    ELSE IF Head(lines) = Separator
    THEN <<block>> \o LineBlocks(Tail(lines), <<>>)
    ELSE LineBlocks(Tail(lines), Append(block, Head(lines)))

Nonblank(block) ==
    \E i \in 1..Len(block) : \E j \in 1..Len(block[i]) : block[i][j] \notin Whitespace

NonblankBlocks(text) == SelectSeq(LineBlocks(split(text, <<"\n">>), <<>>), Nonblank)

\* C14: for a text in which '---' occurs only as separator lines, the records
\* are as many as the nonblank blocks between the separator lines, and the
\* i-th record is the parse of the i-th such block.
C14_OneRecordPerBlock ==
    (pc \in {"generate_json_files", "materialized"} /\ WellFormed(content)) =>
        LET blocks == NonblankBlocks(content) IN
        /\ Len(prompts) = Len(blocks)
        /\ \A i \in 1..Len(blocks) :
              prompts[i] = parse_prompt_block(JoinLines(blocks[i]))

C14_Witness ==
    /\ pc = "materialized"
    /\ WellFormed(content)
    /\ Find(content, Separator) # 0
    /\ Len(prompts) = 2
    /\ prompts[1] # prompts[2]

\* the lines without a colon that follow line k - 1, each after one space
RECURSIVE Continuations(_, _)
Continuations(lines, k) ==
    IF k > Len(lines) \/ HasColon(lines[k]) THEN <<>>
    ELSE <<" ">> \o strip(lines[k]) \o Continuations(lines, k + 1)

\* C15: in every record, the field a colon line starts (and no later colon
\* line starts again) has the trimmed text before the first colon as label
\* and, as value, the trimmed rest followed by each following colon-less
\* line, joined by one space.
C15_ContinuationLinesAppended ==
    pc \in {"generate_json_files", "materialized"} =>
        \A i \in 1..Len(prompts) :
            LET lines == split(load_prompts(content)[i], <<"\n">>) IN
            \A j \in 1..Len(lines) :
                (/\ HasColon(lines[j])
                 /\ \A m \in (j + 1)..Len(lines) :
                        HasColon(lines[m]) => Label(lines[m]) # Label(lines[j]))
                => /\ Label(lines[j]) \in DOMAIN prompts[i]
                   /\ prompts[i][Label(lines[j])] =
                         Rest(lines[j]) \o Continuations(lines, j + 1)

ControlKeys == {ImagesKey, IterationsKey, SeedKey}

----
\* Termination of the batch (under SpecLive)

RECURSIVE SumIterations(_)
SumIterations(S) ==
    IF S = {} THEN 0
    ELSE LET k == CHOOSE x \in S : TRUE
         IN  desc[k].iters + SumIterations(S \ {k})

ItemDirs == {k \in Keys : desc[k] # NoDir}

\* every descriptor that is opened loads
DescriptorsLoad == pc = "load" => desc[cur].kind = "ok"

\* a request returns images or fails with a request error
RequestsReturn == resp \in {"none", "ok", "conn_error", "http_error"}

\* generate_images has finished for characters, then for scenes, one request
\* per iteration of every item; the listener is stopped and main is at its end
BatchCompleted ==
    /\ pc = "done"
    /\ ~keyboard_listener
    /\ doneItems = ItemDirs
    /\ Len(posts) = SumIterations(ItemDirs)
    /\ \A i, j \in 1..Len(posts) :
          (posts[i][1][1] = "scene" /\ posts[j][1][1] = "character") => j < i

\* C20: if every descriptor loads, every request eventually returns, with
\* images or with a request error, and the pause flag eventually stays false,
\* then a batch that starts ends: generate_images finishes for characters and
\* then for scenes after as many requests as the items' iteration counts sum
\* to, and main stops the listener and reaches its end.
C20_BatchTerminates ==
    (/\ [](DescriptorsLoad /\ RequestsReturn)
     /\ []<>(pc # "await")
     /\ <>[](~paused))
    => ((pc = "start_listener") ~> BatchCompleted)

C20_Witness ==
    /\ BatchCompleted
    /\ Len(posts) >= 3
    /\ errors # {}
    /\ images # {}
    /\ presses # 0

----
\* The pause flag at the moment of a request (under Spec)

\* C21: whenever a txt2img request is sent the pause flag is false, however
\* the listener's toggles interleave with the loop, a toggle between the
\* pause check before the request and the send included.
C21_NoRequestWhilePaused == [][posts' # posts => ~paused]_vars

====
